---- MODULE Spec2Model ----
(***************************************************************************)
(* Mandi price pipeline: the store writer (fetch_mandi_data.store_mongo),  *)
(* the quality filter (fetch_mandi_data.process_records), the forecast     *)
(* engine (predictor.get_live_forecast) and the /forecast endpoint         *)
(* (app.get_forecast).                                                     *)
(*                                                                         *)
(* Numbers that may be NaN are 0- or 1-tuples: <<>> is NaN, <<n>> is n.    *)
(* Calendar dates are day numbers.                                         *)
(***************************************************************************)
EXTENDS Integers, Sequences, FiniteSets, Bags, TLC

VARIABLES
    store,      \* the collection recent_crop_prices: a bag of documents
    index,      \* TRUE once unique_mandi_price_with_variety exists
    wpc,        \* per store_mongo run: where the run is
    batch,      \* per run: docs, the list the requests are built from
    pending,    \* per run: positions of docs whose UpdateOne has not run yet
    inflight,   \* per run: position of the UpdateOne that matched nothing and
                \* is about to insert (0: none)
    writeErrors,\* per run: write errors collected by the unordered bulk
    prev,       \* the last finished run: its batch and the store it left
    records,    \* the raw records fetch_data returned
    now,        \* datetime.now() of the run: a day number and a time of day
    fpc,        \* where main() is: "fetched", "processed", "skipped"
    out,        \* the frame process_records returned: a sequence of rows
    request,    \* the ForecastRequest: crop_name and variety_name
    modelFile,  \* the artifact the request's model file holds, or "absent"
    dbUp,       \* whether the store answers the query
    epc,        \* where the request is
    recent_data,\* get_live_forecast: the frame of retrieved observations
    future_df,  \* get_live_forecast: the frame the predictions are made on
    step,       \* get_live_forecast: i of the loop
    calls,      \* what each model.predict of the loop was given (the feature
                \* and the two regressors of its row) and returned
    result,     \* what get_live_forecast returned or raised
    status      \* the HTTP status get_forecast answered with (0: none yet)

storeVars == <<store, index, wpc, batch, pending, inflight, writeErrors, prev>>

filterVars == <<records, now, fpc, out>>

writerVars == <<index, wpc, batch, pending, inflight, writeErrors, prev>>

forecastVars ==
    <<request, modelFile, dbUp, epc, recent_data, future_df, step, calls, result, status>>

notStore == <<filterVars, forecastVars>>

notFilter == <<storeVars, forecastVars>>

notForecast == <<store, writerVars, filterVars>>

vars == <<storeVars, filterVars, forecastVars>>

----------------------------------------------------------------------------
(* Values *)

NaN == <<>>

Num(n) == <<n>>

IsNaN(x) == x = <<>>

Val(x) == x[1]

Range(s) == {s[i] : i \in DOMAIN s}

----------------------------------------------------------------------------
(* Store writer: store_mongo *)

MaxBatch == 2

Writers == {"w1", "w2"}

Prices == {1800, 2100}

\* An accepted observation as process_records returns it (req_cols).
Observation(market, day, price) ==
    [commodity |-> "Onion", variety |-> "Red", state |-> "Maharashtra",
     district |-> "Pune", market |-> market, arrival_date |-> day,
     min_price |-> Num(price), max_price |-> Num(price), modal_price |-> Num(price)]

\* Two prices for the first market, one for the second.
Docs == {Observation("Pune", 1, p) : p \in Prices} \cup {Observation("Junnar", 1, 1800)}

Batches == UNION {[1..n -> Docs] : n \in 1..MaxBatch}

\* query = {...}: the filter of one UpdateOne.
NaturalKey(doc) ==
    <<doc.commodity, doc.variety, doc.state, doc.district, doc.market, doc.arrival_date>>

StoredDocs(s) == BagToSet(s)

Matching(s, doc) == {d \in StoredDocs(s) : NaturalKey(d) = NaturalKey(doc)}

KeyCount(s, k) ==
    LET ds == {d \in StoredDocs(s) : NaturalKey(d) = k}
        RECURSIVE Sum(_)
        Sum(S) == IF S = {} THEN 0
                  ELSE LET d == CHOOSE x \in S : TRUE
                       IN  CopiesIn(d, s) + Sum(S \ {d})
    IN  Sum(ds)

\* A collection with a unique index rejects a second document with the key.
NonUniqueIndexAllows(s, doc) == TRUE

UniqueIndexAllows(s, doc) == KeyCount(s, NaturalKey(doc)) = 0

\* {"$set": doc} on one matched document: every field of doc is written.
SetFields(old, doc) == doc

ReplaceOne(s, old, doc) == (s (-) SetToBag({old})) (+) SetToBag({SetFields(old, doc)})

InsertOne(s, doc) == s (+) SetToBag({doc})

NoPrev == [valid |-> FALSE, batch |-> <<>>, store |-> EmptyBag]

StoreInit ==
    /\ store = EmptyBag
    /\ index = FALSE
    /\ wpc = [w \in Writers |-> "idle"]
    /\ batch = [w \in Writers |-> <<>>]
    /\ pending = [w \in Writers |-> {}]
    /\ inflight = [w \in Writers |-> 0]
    /\ writeErrors = [w \in Writers |-> 0]
    /\ prev = NoPrev

NoResult == [kind |-> "pending", points |-> <<>>, error |-> ""]

ForecastIdle ==
    /\ request = [crop_name |-> "", variety_name |-> ""]
    /\ modelFile = "absent"
    /\ dbUp = TRUE
    /\ epc = "idle"
    /\ recent_data = <<>>
    /\ future_df = <<>>
    /\ step = 0
    /\ calls = <<>>
    /\ result = NoResult
    /\ status = 0

FilterIdle ==
    /\ records = <<>>
    /\ now = [day |-> 0, tod |-> 0]
    /\ fpc = "skipped"
    /\ out = <<>>

\* store_mongo(df) with df.empty: logs and returns.
StoreEmpty(w) ==
    /\ wpc[w] = "idle"
    /\ UNCHANGED storeVars
    /\ UNCHANGED notStore

\* store_mongo(df) entered with a non-empty frame; docs = to_dict("records").
StoreBegin(w, b) ==
    /\ wpc[w] = "idle"
    /\ wpc' = [wpc EXCEPT ![w] = "index"]
    /\ batch' = [batch EXCEPT ![w] = b]
    /\ UNCHANGED <<store, index, pending, inflight, writeErrors>>
    /\ UNCHANGED notStore

\* col.create_index(..., unique=True): fails when the collection already
\* holds two documents with one key, and the run ends in the except branch.
CreateIndex(w) ==
    /\ wpc[w] = "index"
    /\ IF \A d \in StoredDocs(store) : KeyCount(store, NaturalKey(d)) = 1
       THEN /\ index' = TRUE
            /\ wpc' = [wpc EXCEPT ![w] = "bulk"]
            /\ pending' = [pending EXCEPT ![w] = DOMAIN batch[w]]
       ELSE /\ wpc' = [wpc EXCEPT ![w] = "failed"]
            /\ UNCHANGED <<index, pending>>
    /\ UNCHANGED <<store, batch, inflight, writeErrors>>
    /\ UNCHANGED notStore

\* One UpdateOne(query, {"$set": doc}, upsert=True) of the unordered bulk:
\* with ordered=False the server performs the requests of the bulk in an
\* order it chooses; here it takes them one at a time.  A matched document
\* is replaced in one step; with no match the request goes on to insert,
\* and requests of other runs may come in between.
UpsertMatch(w, i) ==
    /\ wpc[w] = "bulk"
    /\ inflight[w] = 0
    /\ i \in pending[w]
    /\ pending' = [pending EXCEPT ![w] = @ \ {i}]
    /\ IF Matching(store, batch[w][i]) # {}
       THEN /\ \E old \in Matching(store, batch[w][i]) :
                  store' = ReplaceOne(store, old, batch[w][i])
            /\ UNCHANGED inflight
       ELSE /\ inflight' = [inflight EXCEPT ![w] = i]
            /\ UNCHANGED store
    /\ UNCHANGED <<index, wpc, batch, writeErrors>>
    /\ UNCHANGED notStore

\* The insert of an upsert that matched nothing.
UpsertInsert(w) ==
    /\ wpc[w] = "bulk"
    /\ inflight[w] # 0
    /\ ~index \/ UniqueIndexAllows(store, batch[w][inflight[w]])
    /\ store' = InsertOne(store, batch[w][inflight[w]])
    /\ inflight' = [inflight EXCEPT ![w] = 0]
    /\ UNCHANGED <<index, wpc, batch, pending, writeErrors>>
    /\ UNCHANGED notStore

\* The insert meets a document another run inserted meanwhile: the unique
\* index raises a duplicate key error and the server runs the upsert again.
UpsertRetry(w) ==
    /\ wpc[w] = "bulk"
    /\ inflight[w] # 0
    /\ index /\ ~UniqueIndexAllows(store, batch[w][inflight[w]])
    /\ pending' = [pending EXCEPT ![w] = @ \cup {inflight[w]}]
    /\ inflight' = [inflight EXCEPT ![w] = 0]
    /\ UNCHANGED <<store, index, wpc, batch, writeErrors>>
    /\ UNCHANGED notStore

\* ... or the duplicate key error is kept as a write error of the bulk; the
\* other requests still run (ordered=False).
UpsertDuplicateKey(w) ==
    /\ wpc[w] = "bulk"
    /\ inflight[w] # 0
    /\ index /\ ~UniqueIndexAllows(store, batch[w][inflight[w]])
    /\ writeErrors' = [writeErrors EXCEPT ![w] = @ + 1]
    /\ inflight' = [inflight EXCEPT ![w] = 0]
    /\ UNCHANGED <<store, index, wpc, batch, pending>>
    /\ UNCHANGED notStore

\* bulk_write returns (or raises BulkWriteError, caught by the except
\* branch) once every request has run.
BulkDone(w) ==
    /\ wpc[w] = "bulk"
    /\ pending[w] = {}
    /\ inflight[w] = 0
    /\ wpc' = [wpc EXCEPT ![w] = IF writeErrors[w] = 0 THEN "stored" ELSE "failed"]
    /\ UNCHANGED <<store, index, batch, pending, inflight, writeErrors>>
    /\ UNCHANGED notStore

\* store_mongo returns.
StoreReturn(w) ==
    /\ wpc[w] \in {"stored", "failed"}
    /\ wpc' = [wpc EXCEPT ![w] = "idle"]
    /\ batch' = [batch EXCEPT ![w] = <<>>]
    /\ writeErrors' = [writeErrors EXCEPT ![w] = 0]
    /\ UNCHANGED <<store, index, pending, inflight>>
    /\ UNCHANGED notStore

\* Runs one after the other: a single writer.  prev remembers the batch of
\* the run that just returned and the store it left behind.
SeqWriter == "w1"

NextStoreSeq ==
    \/ StoreEmpty(SeqWriter)
    \/ \E b \in Batches : StoreBegin(SeqWriter, b) /\ UNCHANGED prev
    \/ CreateIndex(SeqWriter) /\ UNCHANGED prev
    \/ \E i \in 1..MaxBatch : UpsertMatch(SeqWriter, i) /\ UNCHANGED prev
    \/ UpsertInsert(SeqWriter) /\ UNCHANGED prev
    \/ BulkDone(SeqWriter) /\ UNCHANGED prev
    \/ /\ StoreReturn(SeqWriter)
       /\ prev' = [valid |-> wpc[SeqWriter] = "stored", batch |-> batch[SeqWriter],
                   store |-> store]

InitStore == StoreInit /\ FilterIdle /\ ForecastIdle

SpecStoreSeq == InitStore /\ [][NextStoreSeq]_vars

\* Concurrent runs: the requests of different runs interleave.
NextStore ==
    \E w \in Writers :
        \/ StoreEmpty(w)
        \/ \E b \in Batches : StoreBegin(w, b) /\ UNCHANGED prev
        \/ CreateIndex(w) /\ UNCHANGED prev
        \/ \E i \in 1..MaxBatch : UpsertMatch(w, i) /\ UNCHANGED prev
        \/ UpsertInsert(w) /\ UNCHANGED prev
        \/ UpsertRetry(w) /\ UNCHANGED prev
        \/ UpsertDuplicateKey(w) /\ UNCHANGED prev
        \/ BulkDone(w) /\ UNCHANGED prev
        \/ StoreReturn(w) /\ UNCHANGED prev

SpecStore == InitStore /\ [][NextStore]_vars

----------------------------------------------------------------------------
(* Quality filter: process_records *)

MaxRecords == 2

COMMODITIES_TO_KEEP == {"Onion"}

DAYS_TO_KEEP == 20

TARGET_STATE == "Maharashtra"

TARGET_DISTRICTS ==
    {"Ahmednagar", "Akola", "Amarawati", "Beed", "Buldhana", "Chandrapur",
     "Chattrapati Sambhajinagar", "Dharashiv(Usmanabad)", "Dhule", "Jalana",
     "Jalgaon", "Kolhapur", "Latur", "Mumbai", "Nagpur", "Nandurbar",
     "Nashik", "Pune", "Raigad", "Ratnagiri", "Sangli", "Satara",
     "Sholapur", "Thane", "Wardha"}

\* str.lower() on the strings that occur.
LowerPairs ==
    {<<"Ahmednagar", "ahmednagar">>, <<"Akola", "akola">>, <<"Amarawati", "amarawati">>,
     <<"Beed", "beed">>, <<"Buldhana", "buldhana">>, <<"Chandrapur", "chandrapur">>,
     <<"Chattrapati Sambhajinagar", "chattrapati sambhajinagar">>,
     <<"Dharashiv(Usmanabad)", "dharashiv(usmanabad)">>, <<"Dhule", "dhule">>,
     <<"Jalana", "jalana">>, <<"Jalgaon", "jalgaon">>, <<"Kolhapur", "kolhapur">>,
     <<"Latur", "latur">>, <<"Mumbai", "mumbai">>, <<"Nagpur", "nagpur">>,
     <<"Nandurbar", "nandurbar">>, <<"Nashik", "nashik">>, <<"Pune", "pune">>,
     <<"PUNE", "pune">>, <<"Raigad", "raigad">>, <<"Ratnagiri", "ratnagiri">>,
     <<"Sangli", "sangli">>, <<"Satara", "satara">>, <<"Sholapur", "sholapur">>,
     <<"Thane", "thane">>, <<"Wardha", "wardha">>, <<"Panaji", "panaji">>,
     <<"Onion", "onion">>, <<"ONION", "onion">>, <<"Potato", "potato">>,
     <<"Maharashtra", "maharashtra">>, <<"MAHARASHTRA", "maharashtra">>,
     <<"Goa", "goa">>, <<"Red", "red">>, <<"White", "white">>}

Lower(str) ==
    IF \E p \in LowerPairs : p[1] = str
    THEN (CHOOSE p \in LowerPairs : p[1] = str)[2]
    ELSE str

\* pd.to_numeric(col, errors='coerce') on the price texts that occur; None
\* (a missing column or field) and text that is no number become NaN.
ToNumeric(text) ==
    CASE text = "2100" -> Num(2100)
      [] text = "1800" -> Num(1800)
      [] text = "0" -> Num(0)
      [] text = "-5" -> Num(0 - 5)
      [] OTHER -> NaN

MonthDays == <<31, 28, 31, 30, 31, 30, 31, 31, 30, 31, 30, 31>>

RECURSIVE DaysBefore(_)
DaysBefore(month) == IF month = 1 THEN 0 ELSE MonthDays[month - 1] + DaysBefore(month - 1)

DayNumber(day, month) == DaysBefore(month) + day

IsDate(day, month) == month \in 1..12 /\ day \in 1..MonthDays[month]

\* pd.to_datetime(col, errors="coerce", dayfirst=True) on the text "a-b-<year>":
\* a is read as the day when that gives a date, else as the month; text that
\* is no date becomes NaT.
ParseDate(text) ==
    IF IsDate(text[1], text[2]) THEN Num(DayNumber(text[1], text[2]))
    ELSE IF IsDate(text[2], text[1]) THEN Num(DayNumber(text[2], text[1]))
    ELSE NaN

\* df = pd.DataFrame(records)[req_cols] with the price columns made numeric;
\* idx is the frame's index label, which every later selection keeps.
Frame(recs) ==
    [i \in DOMAIN recs |->
        [idx |-> i, commodity |-> recs[i].commodity, variety |-> recs[i].variety,
         state |-> recs[i].state, district |-> recs[i].district,
         market |-> recs[i].market, arrival_date |-> recs[i].arrival_date,
         min_price |-> ToNumeric(recs[i].min_price),
         max_price |-> ToNumeric(recs[i].max_price),
         modal_price |-> ToNumeric(recs[i].modal_price)]]

HasModal(r) == ~IsNaN(r.modal_price)

NonNegativeModal(r) == Val(r.modal_price) >= 0

PositiveModal(r) == Val(r.modal_price) > 0

CommodityKept(r) == r.commodity \in COMMODITIES_TO_KEEP

StateKept(r) == r.state = TARGET_STATE

DistrictKept(r) == Lower(r.district) \in {Lower(d) : d \in TARGET_DISTRICTS}

DateParsed(r) == ~IsNaN(r.arrival_date)

\* date_limit = datetime.now() - timedelta(days=DAYS_TO_KEEP)
DateLimit(t) == [day |-> t.day - DAYS_TO_KEEP, tod |-> t.tod]

\* arrival_date (midnight of its day) >= limit
NotBefore(day, limit) == day > limit.day \/ (day = limit.day /\ limit.tod = 0)

WithParsedDate(df) == [i \in DOMAIN df |-> [df[i] EXCEPT !.arrival_date = ParseDate(@)]]

WithDay(df) == [i \in DOMAIN df |-> [df[i] EXCEPT !.arrival_date = Val(@)]]

\* The selections of process_records, in the order of the code.
Filtered(recs, t) ==
    LET Recent(r) == NotBefore(Val(r.arrival_date), DateLimit(t))
        df1 == SelectSeq(Frame(recs), HasModal)
        df2 == SelectSeq(df1, PositiveModal)
        df3 == SelectSeq(df2, CommodityKept)
        df4 == SelectSeq(df3, StateKept)
        df5 == SelectSeq(df4, DistrictKept)
        df6 == SelectSeq(WithParsedDate(df5), DateParsed)
        df7 == SelectSeq(df6, Recent)
    IN  WithDay(df7)

\* df.sort_values(by="arrival_date", ascending=False): the default sort is
\* not stable, so rows of one date come out in any order.
SortedDescending(df) ==
    {s \in [DOMAIN df -> Range(df)] :
        /\ Range(s) = Range(df)
        /\ \A i, j \in DOMAIN s : i < j => s[i].arrival_date >= s[j].arrival_date}

\* The raw records of the run.  Text "a-b" of arrival_date is the pair <<a, b>>.
RawRecord(commodity, state, district, date, modal, min) ==
    [commodity |-> commodity, variety |-> "Red", state |-> state,
     district |-> district, market |-> "Pune", arrival_date |-> date,
     min_price |-> min, max_price |-> modal, modal_price |-> modal]

Today == DayNumber(25, 2)

DateTexts == {<<20, 2>>, <<5, 2>>, <<4, 2>>, <<2, 20>>, <<0, 0>>}

PriceTexts == {"2100", "0", "-5", "NA"}

\* Any spelling of the places with a good price and date, and any price and
\* date with the places as the targets spell them.
RawRecords ==
    {RawRecord(c, s, d, <<20, 2>>, "2100", "1800") :
        c \in {"Onion", "onion", "Potato"}, s \in {"Maharashtra", "MAHARASHTRA", "Goa"},
        d \in {"Pune", "pune", "Panaji"}}
    \cup {RawRecord("Onion", "Maharashtra", "Pune", dt, p, "1800") :
        dt \in DateTexts, p \in PriceTexts}
    \cup {RawRecord("Onion", "Maharashtra", "Pune", <<20, 2>>, "2100", "NA")}

FilterInit ==
    /\ records \in UNION {[1..n -> RawRecords] : n \in 0..MaxRecords}
    /\ now \in {[day |-> Today, tod |-> t] : t \in {0, 1}}
    /\ fpc = "fetched"
    /\ out = <<>>

\* main(): "if not records: return".
NoRecords ==
    /\ fpc = "fetched"
    /\ records = <<>>
    /\ fpc' = "skipped"
    /\ UNCHANGED <<records, now, out>>
    /\ UNCHANGED notFilter

\* df = process_records(records)
ProcessRecords ==
    /\ fpc = "fetched"
    /\ records # <<>>
    /\ out' \in SortedDescending(Filtered(records, now))
    /\ fpc' = "processed"
    /\ UNCHANGED <<records, now>>
    /\ UNCHANGED notFilter

NextFilter ==
    \/ NoRecords
    \/ ProcessRecords

InitFilter == FilterInit /\ StoreInit /\ ForecastIdle

SpecFilter == InitFilter /\ [][NextFilter]_vars

----------------------------------------------------------------------------
(* Forecast engine: get_live_forecast, and the endpoint get_forecast *)

MaxDocs == 11

QueryLimit == 10

MinRecent == 7

TailRows == 7

Horizon == 7

LastStep == 6

\* np.log1p and np.expm1: a value in log space is kept as the price it is
\* the log1p of.
Log1p(x) == IF IsNaN(x) THEN NaN ELSE Num([log1p |-> Val(x)])

Expm1(x) == IF IsNaN(x) THEN NaN ELSE Num(Val(x).log1p)

\* The artifact: model.predict(rows) gives yhat, yhat_lower and yhat_upper
\* for each row from the row's ds and regressors.  Four artifacts stand for
\* what a trained model may compute.
Artifacts == {"persistence", "constant", "drift", "regressor"}

Yhat(artifact, row) ==
    CASE artifact = "persistence" -> Val(Expm1(row.YP))
      [] artifact = "constant" -> 2000
      [] artifact = "drift" -> Val(Expm1(row.YP)) + 100
      [] OTHER -> Val(Expm1(row.min_price)) + row.ds

PredictRow(artifact, row) ==
    [ds |-> row.ds,
     yhat |-> Log1p(Num(Yhat(artifact, row))),
     yhat_lower |-> Log1p(Num(Yhat(artifact, row) - 50)),
     yhat_upper |-> Log1p(Num(Yhat(artifact, row) + 50))]

\* The stores the requests run against: n observations of onion on
\* consecutive days at one market, with at most one irregular observation k:
\* a day skipped after it, a second market on the day before, a min_price
\* that did not parse at ingestion, or another variety.
Irregular == {"none", "gap", "sameday", "nan", "variety"}

StoredObservation(i, k, kind) ==
    [commodity |-> "Onion",
     variety |-> IF kind = "variety" /\ i = k THEN "White" ELSE "Red",
     state |-> "Maharashtra", district |-> "Pune",
     market |-> IF kind = "sameday" /\ i = k THEN "Junnar" ELSE "Pune",
     arrival_date |-> CASE kind = "gap" /\ i > k -> i + 1
                        [] kind = "sameday" /\ i >= k -> i - 1
                        [] OTHER -> i,
     min_price |-> IF kind = "nan" /\ i = k THEN NaN ELSE Num(1700 + 10 * i),
     max_price |-> Num(1900 + 10 * i),
     modal_price |-> Num(1800 + 10 * i)]

Stores ==
    {SetToBag({StoredObservation(i, k, "none") : i \in 1..n}) : n \in 0..MaxDocs, k \in {1}}
    \cup {SetToBag({StoredObservation(i, k, kind) : i \in 1..n}) :
             n \in 2..MaxDocs, k \in 2..MaxDocs, kind \in Irregular \ {"none"}}

Requests == {[crop_name |-> "Onion", variety_name |-> v] : v \in {"Red", "White"}}

ForecastInit ==
    /\ store \in Stores
    /\ request \in Requests
    /\ modelFile \in Artifacts \cup {"absent"}
    /\ dbUp \in BOOLEAN
    /\ epc = "start"
    /\ recent_data = <<>>
    /\ future_df = <<>>
    /\ step = 0
    /\ calls = <<>>
    /\ result = NoResult
    /\ status = 0

NotFound == [kind |-> "None", points |-> <<>>, error |-> ""]

Raised(error) == [kind |-> "raised", points |-> <<>>, error |-> error]

Forecast(points) == [kind |-> "forecast", points |-> points, error |-> ""]

\* query = {"commodity": crop_name, "variety": variety_name}
QueryMatches(s, req) ==
    {d \in StoredDocs(s) : d.commodity = req.crop_name /\ d.variety = req.variety_name}

\* Order by date; observations of one date come in either order of market.
Precedes(d, e, descending, tie) ==
    \/ d = e
    \/ d.arrival_date # e.arrival_date
         /\ (IF descending THEN d.arrival_date > e.arrival_date
                           ELSE d.arrival_date < e.arrival_date)
    \/ d.arrival_date = e.arrival_date /\ d # e
         /\ (IF tie THEN d.market = "Pune" ELSE d.market # "Pune")

RECURSIVE SortByDate(_, _, _)
SortByDate(S, descending, tie) ==
    IF S = {} THEN <<>>
    ELSE LET first == CHOOSE d \in S : \A e \in S : Precedes(d, e, descending, tie)
         IN  <<first>> \o SortByDate(S \ {first}, descending, tie)

FirstRows(n, sq) == SubSeq(sq, 1, IF Len(sq) < n THEN Len(sq) ELSE n)

LastRows(n, sq) == SubSeq(sq, IF Len(sq) < n THEN 1 ELSE Len(sq) - n + 1, Len(sq))

\* collection.find(query).sort("arrival_date", -1).limit(10)
FindRecent(s, req, tie) == FirstRows(QueryLimit, SortByDate(QueryMatches(s, req), TRUE, tie))

\* "if recent_data.empty or len(recent_data) < 7"
OnlyEmpty(df) == Len(df) = 0

NotEnough(df) == Len(df) = 0 \/ Len(df) < MinRecent

\* rename arrival_date -> ds, modal_price -> y
Renamed(doc) ==
    [ds |-> doc.arrival_date, y |-> doc.modal_price, min_price |-> doc.min_price,
     max_price |-> doc.max_price, market |-> doc.market, arrival_date |-> doc.arrival_date,
     YP |-> NaN]

Usable(row) == ~IsNaN(row.y) /\ ~IsNaN(row.min_price) /\ ~IsNaN(row.max_price)

LogRow(row) ==
    [row EXCEPT !.y = Log1p(@), !.min_price = Log1p(@), !.max_price = Log1p(@)]

\* recent_data['Yesterday Price'] = recent_data['y'].shift(1)
Shifted(df) == [i \in DOMAIN df |-> [df[i] EXCEPT !.YP = IF i = 1 THEN NaN ELSE df[i - 1].y]]

\* future_df['Yesterday Price'].bfill(): a NaN takes the next value below it.
RECURSIVE NextValue(_, _)
NextValue(df, i) ==
    IF i > Len(df) THEN NaN
    ELSE IF ~IsNaN(df[i].YP) THEN df[i].YP
    ELSE NextValue(df, i + 1)

Backfilled(df) == [i \in DOMAIN df |-> [df[i] EXCEPT !.YP = NextValue(df, i)]]

\* Section C: sort by ds, coerce and drop the rows with a NaN price, log1p,
\* shift, the last 7 rows, bfill.
Prepared(df, tie) ==
    LET sorted == SortByDate(Range(df), FALSE, tie)
        kept == SelectSeq([i \in DOMAIN sorted |-> Renamed(sorted[i])], Usable)
        logged == [i \in DOMAIN kept |-> LogRow(kept[i])]
    IN  Backfilled(LastRows(TailRows, Shifted(logged)))

\* future_df.loc[future_df.index[i+1], 'Yesterday Price'] = predicted_y_log
\* (i counts from 0; rows are numbered from 1).
FeedOwnRow(df, i, yhat) == [df EXCEPT ![i + 1].YP = yhat]

FeedForward(df, i, yhat) == [df EXCEPT ![i + 2].YP = yhat]

\* Sections E: predict on the whole frame, expm1 of the three columns.
FinalForecast(artifact, df) ==
    [i \in DOMAIN df |->
        LET f == PredictRow(artifact, df[i])
        IN  [ds |-> f.ds, predicted_price |-> Expm1(f.yhat),
             yhat_lower |-> Expm1(f.yhat_lower), yhat_upper |-> Expm1(f.yhat_upper)]]

\* Section A: joblib.load; FileNotFoundError returns None.
LoadModel ==
    /\ epc = "start"
    /\ IF modelFile = "absent"
       THEN epc' = "returned" /\ result' = NotFound
       ELSE epc' = "loaded" /\ UNCHANGED result
    /\ UNCHANGED <<request, modelFile, dbUp, recent_data, future_df, step, calls, status>>
    /\ UNCHANGED notForecast

\* Section B with the store unreachable: the cursor raises.
QueryFails ==
    /\ epc = "loaded"
    /\ ~dbUp
    /\ epc' = "returned"
    /\ result' = Raised("ServerSelectionTimeoutError")
    /\ UNCHANGED <<request, modelFile, dbUp, recent_data, future_df, step, calls, status>>
    /\ UNCHANGED notForecast

\* Section B: the query, and the test on the number of rows.
Query ==
    /\ epc = "loaded"
    /\ dbUp
    /\ \E tie \in BOOLEAN :
          /\ recent_data' = FindRecent(store, request, tie)
          /\ IF NotEnough(FindRecent(store, request, tie))
             THEN epc' = "returned" /\ result' = NotFound
             ELSE epc' = "queried" /\ UNCHANGED result
    /\ UNCHANGED <<request, modelFile, dbUp, future_df, step, calls, status>>
    /\ UNCHANGED notForecast

\* Section C.
Prepare ==
    /\ epc = "queried"
    /\ \E tie \in BOOLEAN : future_df' = Prepared(recent_data, tie)
    /\ epc' = "loop"
    /\ step' = 0
    /\ UNCHANGED <<request, modelFile, dbUp, recent_data, calls, result, status>>
    /\ UNCHANGED notForecast

\* Section D, one pass of "for i in range(7)": predict on row i and write the
\* prediction into row i+1.  iloc[[i]] and index[i+1] raise IndexError past
\* the end of the frame; a NaN feature makes predict raise.
LoopStep ==
    /\ epc = "loop"
    /\ step < Horizon
    /\ IF step + 1 > Len(future_df)
       THEN /\ epc' = "returned"
            /\ result' = Raised("IndexError")
            /\ UNCHANGED <<future_df, step, calls>>
       ELSE IF IsNaN(future_df[step + 1].YP)
       THEN /\ epc' = "returned"
            /\ result' = Raised("ValueError")
            /\ UNCHANGED <<future_df, step, calls>>
       ELSE LET forecast_day == PredictRow(modelFile, future_df[step + 1])
            IN  /\ calls' = Append(calls, [feature |-> future_df[step + 1].YP,
                                           min_price |-> future_df[step + 1].min_price,
                                           max_price |-> future_df[step + 1].max_price,
                                           yhat |-> forecast_day.yhat])
                /\ IF step < LastStep
                   THEN IF step + 2 > Len(future_df)
                        THEN /\ epc' = "returned"
                             /\ result' = Raised("IndexError")
                             /\ UNCHANGED <<future_df, step>>
                        ELSE /\ future_df' = FeedForward(future_df, step, forecast_day.yhat)
                             /\ step' = step + 1
                             /\ UNCHANGED <<epc, result>>
                   ELSE /\ step' = step + 1
                        /\ UNCHANGED <<future_df, epc, result>>
    /\ UNCHANGED <<request, modelFile, dbUp, recent_data, status>>
    /\ UNCHANGED notForecast

\* Section E: the final prediction on the whole frame, returned.
FinalPredict ==
    /\ epc = "loop"
    /\ step = Horizon
    /\ result' = Forecast(FinalForecast(modelFile, future_df))
    /\ epc' = "returned"
    /\ UNCHANGED <<request, modelFile, dbUp, recent_data, future_df, step, calls, status>>
    /\ UNCHANGED notForecast

\* get_forecast: what the body of the try block does with the result of
\* get_live_forecast: it raises HTTPException(404) on None, returns the
\* forecast otherwise, and an exception of get_live_forecast passes through.
TryBlock(res) ==
    CASE res.kind = "raised" -> [raised |-> TRUE, exception |-> res.error, code |-> 0]
      [] res.kind = "None" -> [raised |-> TRUE, exception |-> "HTTPException", code |-> 404]
      [] OTHER -> [raised |-> FALSE, exception |-> "", code |-> 200]

\* "except Exception as e: raise HTTPException(status_code=500, ...)":
\* HTTPException is an Exception, so the 404 raised in the try block is
\* caught here as well.
ExceptBlock(outcome) == IF outcome.raised THEN 500 ELSE outcome.code

Respond ==
    /\ epc = "returned"
    /\ status' = ExceptBlock(TryBlock(result))
    /\ epc' = "responded"
    /\ UNCHANGED <<request, modelFile, dbUp, recent_data, future_df, step, calls, result>>
    /\ UNCHANGED notForecast

NextForecast ==
    \/ LoadModel
    \/ QueryFails
    \/ Query
    \/ Prepare
    \/ LoopStep
    \/ FinalPredict
    \/ Respond

\* No ingestion run is under way while the requests are served.
WritersIdle ==
    /\ index = TRUE
    /\ wpc = [w \in Writers |-> "idle"]
    /\ batch = [w \in Writers |-> <<>>]
    /\ pending = [w \in Writers |-> {}]
    /\ inflight = [w \in Writers |-> 0]
    /\ writeErrors = [w \in Writers |-> 0]
    /\ prev = NoPrev

InitForecast == ForecastInit /\ FilterIdle /\ WritersIdle

SpecForecast == InitForecast /\ [][NextForecast]_vars

----------------------------------------------------------------------------
(* Store writer: properties *)

UniqueKeys == \A d \in StoredDocs(store) : KeyCount(store, NaturalKey(d)) = 1

\* C1: a run of store_mongo that follows a run on the same batch leaves the
\* store exactly as the first run left it.
C1_IdempotentUpsert ==
    (wpc[SeqWriter] = "stored" /\ prev.valid /\ prev.batch = batch[SeqWriter])
        => store = prev.store

C3_LastInBatchWins ==
    wpc[SeqWriter] = "stored" =>
        \A i \in DOMAIN batch[SeqWriter] :
            (\A j \in DOMAIN batch[SeqWriter] :
                 NaturalKey(batch[SeqWriter][j]) = NaturalKey(batch[SeqWriter][i]) => j <= i)
            => /\ KeyCount(store, NaturalKey(batch[SeqWriter][i])) = 1
               /\ batch[SeqWriter][i] \in StoredDocs(store)

----------------------------------------------------------------------------
(* Quality filter: properties *)

LowerDistricts == {Lower(d) : d \in TARGET_DISTRICTS}

\* C4: the rows process_records returns are rows of its input, one per
\* accepted record, each with modal_price > 0, a target commodity, the target
\* state, a target district, a date that parses, and that date not before
\* now - DAYS_TO_KEEP.
C4_FilterMonotone ==
    fpc = "processed" =>
        /\ Len(out) <= Len(records)
        /\ \A i, j \in DOMAIN out : i # j => out[i].idx # out[j].idx
        /\ \A i \in DOMAIN out :
              /\ out[i].idx \in DOMAIN records
              /\ LET r == out[i]
                     raw == records[out[i].idx]
                 IN  /\ r.commodity = raw.commodity /\ r.variety = raw.variety
                     /\ r.state = raw.state /\ r.district = raw.district
                     /\ r.market = raw.market
                     /\ r.modal_price = ToNumeric(raw.modal_price)
                     /\ ~IsNaN(r.modal_price) /\ Val(r.modal_price) > 0
                     /\ r.commodity \in COMMODITIES_TO_KEEP
                     /\ r.state = TARGET_STATE
                     /\ Lower(r.district) \in LowerDistricts
                     /\ ParseDate(raw.arrival_date) = Num(r.arrival_date)
                     /\ \/ r.arrival_date > now.day - DAYS_TO_KEEP
                        \/ r.arrival_date = now.day - DAYS_TO_KEEP /\ now.tod = 0

\* Of two records one was kept and one was dropped.
C4_Witness ==
    /\ fpc = "processed"
    /\ Len(records) = 2
    /\ Len(out) = 1

\* What the rules other than the three place rules ask of a raw record.
PassesOtherRules(raw) ==
    /\ ~IsNaN(ToNumeric(raw.modal_price))
    /\ Val(ToNumeric(raw.modal_price)) > 0
    /\ ~IsNaN(ParseDate(raw.arrival_date))
    /\ \/ Val(ParseDate(raw.arrival_date)) > now.day - DAYS_TO_KEEP
       \/ Val(ParseDate(raw.arrival_date)) = now.day - DAYS_TO_KEEP /\ now.tod = 0

\* C10: a record that passes the other rules and whose commodity, state and
\* district equal the targets up to letter case is accepted.
C10_CaseInsensitive ==
    fpc = "processed" =>
        \A i \in DOMAIN records :
            ( /\ PassesOtherRules(records[i])
              /\ Lower(records[i].commodity) \in {Lower(c) : c \in COMMODITIES_TO_KEEP}
              /\ Lower(records[i].state) = Lower(TARGET_STATE)
              /\ Lower(records[i].district) \in LowerDistricts )
            => \E j \in DOMAIN out : out[j].idx = i

----------------------------------------------------------------------------
(* Forecast engine: properties *)

Ended == epc \in {"returned", "responded"}

Succeeded == result.kind = "forecast"

Dependable == modelFile # "absent" /\ dbUp

MatchingObservations == QueryMatches(store, request)

UsableObservations ==
    {d \in MatchingObservations :
        ~IsNaN(d.modal_price) /\ ~IsNaN(d.min_price) /\ ~IsNaN(d.max_price)}

LatestDate ==
    CHOOSE day \in {d.arrival_date : d \in MatchingObservations} :
        \A d \in MatchingObservations : d.arrival_date <= day

\* C5: the 7 dates of a forecast are consecutive days, the first one the day
\* after the latest stored observation matching the request.
C5_HorizonContiguity ==
    Succeeded =>
        /\ Len(result.points) = Horizon
        /\ \A i \in 1..(Len(result.points) - 1) :
              result.points[i + 1].ds = result.points[i].ds + 1
        /\ result.points[1].ds = LatestDate + 1

C8_NeverRaisesOnData ==
    (Ended /\ Dependable) =>
        \/ result.kind = "None"
        \/ Succeeded /\ Len(result.points) = Horizon

\* C9: a None of the engine is answered with 404 and a failure with 500.
C9_NotFoundIs404 ==
    epc = "responded" =>
        /\ result.kind = "None" => status = 404
        /\ result.kind = "raised" => status = 500

\* The stored observations matching the request that carry the latest date.
LatestObservations == {d \in MatchingObservations : d.arrival_date = LatestDate}

\* C11: in a forecast, the regressors min_price and max_price given to the
\* artifact are the same at every step of the loop and on every row of the
\* final prediction: log1p of the min_price and max_price of the latest
\* stored observation.
C11_RegressorsHeldConstant ==
    Succeeded =>
        \E last \in LatestObservations :
            /\ \A j \in DOMAIN calls :
                  /\ calls[j].min_price = Log1p(last.min_price)
                  /\ calls[j].max_price = Log1p(last.max_price)
            /\ \A i \in DOMAIN future_df :
                  /\ future_df[i].min_price = Log1p(last.min_price)
                  /\ future_df[i].max_price = Log1p(last.max_price)

====
